---------------------------- MODULE Spec2Model ----------------------------
(***************************************************************************)
(* Model of the morph package (morph.go, extended.go): the process-wide    *)
(* dictionary state, Init / InitWith, Parse and XParse.                    *)
(*                                                                         *)
(* Text.  A Go string is modelled as a TLA+ string with one character per  *)
(* rune.  Cyrillic letters are written with one ASCII character each:      *)
(*   а б в г д е ж з и й к л м н о п р с т у ф х ц ч ш щ ъ ы ь э ю я ё     *)
(*   a b v g d e j z i q k l m n o p r s t u f h c x w 5 6 y 1 3 8 9 0     *)
(* and a capital Cyrillic letter with the capital ASCII letter.  The       *)
(* hyphen is "-".  Every letter is 2 bytes of UTF-8 and "-" is 1 byte,     *)
(* which ByteLen keeps where the code counts bytes.  Tags are the ASCII    *)
(* strings of the dictionary ("NOUN,inan,masc sing,nomn").                 *)
(***************************************************************************)
EXTENDS Integers, Sequences, FiniteSets, TLC

VARIABLES
    tags,             \* morph.go:36  []string
    prefixes,         \* morph.go:34  []string
    suffixes,         \* morph.go:35  []string
    paradigms,        \* morph.go:37  [][]uint16
    wordsDAWG,        \* morph.go:38  *dawg (Nil or a dawg)
    probDAWG,         \* morph.go:39  *dawg (Nil or a dawg)
    predictionDAWGs,  \* morph.go:40  []*dawg
    call,             \* the last completed call: operation, argument, result
    loaded,           \* history: a call of Init or InitWith has returned nil
    held,             \* the first result Parse/XParse returned, as its caller holds it
    pc,               \* concurrent loading: position of each InitWith call
    ldir,             \* concurrent loading: directory of each call
    li,               \* concurrent loading: loop index i of each call
    wrote,            \* concurrent loading: did the call write shared state
    lret,             \* concurrent loading: value returned by each call
    overlap           \* concurrent loading: a call began while the other was running

globals == <<tags, prefixes, suffixes, paradigms, wordsDAWG, probDAWG,
             predictionDAWGs>>
conc == <<pc, ldir, li, wrote, lret, overlap>>
vars == <<tags, prefixes, suffixes, paradigms, wordsDAWG, probDAWG,
          predictionDAWGs, call, loaded, held, pc, ldir, li, wrote, lret, overlap>>

\* the nil *dawg
Nil == [nil |-> TRUE, items |-> <<>>, dict |-> <<>>]

-----------------------------------------------------------------------------
(* strings *)

Min(a, b) == IF a < b THEN a ELSE b

Char(s, i) == SubSeq(s, i, i)

\* strings.HasPrefix / HasSuffix / TrimPrefix / TrimSuffix
HasPrefix(s, p) == Len(p) <= Len(s) /\ SubSeq(s, 1, Len(p)) = p
HasSuffix(s, x) == Len(x) <= Len(s) /\ SubSeq(s, Len(s) - Len(x) + 1, Len(s)) = x
TrimPrefix(s, p) == IF HasPrefix(s, p) THEN SubSeq(s, Len(p) + 1, Len(s)) ELSE s
TrimSuffix(s, x) == IF HasSuffix(s, x) THEN SubSeq(s, 1, Len(s) - Len(x)) ELSE s

\* strings.Contains
Contains(s, sub) ==
    \E i \in 1..(Len(s) - Len(sub) + 1) : SubSeq(s, i, i + Len(sub) - 1) = sub

\* strings.Count(s, "-")
CountHyphen(s) == Cardinality({i \in 1..Len(s) : Char(s, i) = "-"})

\* strings.IndexByte(word, '-') as a 1-based position, 0 for Go's -1
IndexHyphen(s) ==
    IF \E i \in 1..Len(s) : Char(s, i) = "-"
    THEN CHOOSE i \in 1..Len(s) :
             Char(s, i) = "-" /\ \A j \in 1..(i - 1) : Char(s, j) # "-"
    ELSE 0

\* len(s) of Go: the number of bytes of the UTF-8 encoding
RECURSIVE ByteLen(_)
ByteLen(s) ==
    IF s = "" THEN 0
    ELSE (IF Head(s) = "-" THEN 1 ELSE 2) + ByteLen(Tail(s))

\* s[n:] of Go, n a byte offset that falls on a rune boundary
RECURSIVE ByteSliceFrom(_, _)
ByteSliceFrom(s, n) ==
    IF n <= 0 \/ s = "" THEN s
    ELSE ByteSliceFrom(Tail(s), n - (IF Head(s) = "-" THEN 1 ELSE 2))

\* utf8.RuneCountInString
RuneCount(s) == Len(s)

UpperLetters == "ABVGDEJZIQKLMNOPRSTUFHCXWY"
LowerLetters == "abvgdejziqklmnoprstufhcxwy"

LowerChar(c) ==
    IF \E i \in 1..Len(UpperLetters) : Char(UpperLetters, i) = c
    THEN Char(LowerLetters, CHOOSE i \in 1..Len(UpperLetters) : Char(UpperLetters, i) = c)
    ELSE c

\* strings.ToLower
RECURSIVE ToLower(_)
ToLower(s) == IF s = "" THEN "" ELSE LowerChar(Head(s)) \o ToLower(Tail(s))

\* byte order of the UTF-8 encodings: "-" < а..я < ё
CodeOrder == "-abvgdejziqklmnoprstufhcxw56y13890"
Rank(c) == CHOOSE i \in 1..Len(CodeOrder) : Char(CodeOrder, i) = c

\* a < b of Go strings (bytewise)
RECURSIVE StrLess(_, _)
StrLess(a, b) ==
    IF b = "" THEN FALSE
    ELSE IF a = "" THEN TRUE
    ELSE IF Head(a) # Head(b) THEN Rank(Head(a)) < Rank(Head(b))
    ELSE StrLess(Tail(a), Tail(b))

-----------------------------------------------------------------------------
(* extended.go: package-level tables *)

particlesAfterHyphen == <<"-to", "-ka", "-taki", "-de", "-tko", "-tka", "-s", "-sta">>

\* the list as declared, before init() sorts it
knownPrefixesDecl == <<
    "avia", "avto", "akva", "anti-", "anti", "antropo", "art-", "art",
    "arhi", "astro", "audio", "a3ro", "bez", "bes", "bio", "velo", "vzaimo",
    "video", "vice-", "vne", "vnutri", "vpered", "vperedi", "gekto", "gelio",
    "geo", "getero", "giga", "gigro", "giper", "gipo", "gomo", "dvu", "dvuh",
    "de", "dez", "deka", "deci", "dis", "do", "evro", "za", "zoo", "inter",
    "infra", "kvazi-", "kvazi", "kilo", "kino", "kontr-", "kontr", "kosmo-",
    "kosmo", "kripto", "leqb-", "lje-", "lje", "makro", "maksi-", "maksi",
    "malo", "mega", "media-", "media", "mej", "meta-", "meta", "meteo",
    "metro", "mikro", "milli", "mini-", "mini", "mnogo", "mono", "moto",
    "mul1ti", "nano", "narko", "ne", "nebez", "nedo", "neqro", "neo",
    "nizko", "ober-", "ob5e", "odno", "okolo", "orto", "paleo", "pan",
    "para", "penta", "pere", "piro", "poli", "polu", "porno", "posle",
    "post-", "post", "pra-", "pra", "pred", "press-", "protivo-", "protivo",
    "proto", "psevdo-", "psevdo", "radio", "razno", "re", "retro-", "retro",
    "samo", "santi", "sverh-", "sverh", "spec", "sub", "super-", "super",
    "supra", "tele", "tetra", "top-", "trans-", "trans", "ul1tra", "unter-",
    "wtab-", "3kzo", "3ko", "3konom-", "3ks-", "3ks", "3kstra-", "3kstra",
    "3lektro", "3ndo", "3nergo", "3tno" >>

\* the less function of init(): longer (in bytes) first, then bytewise order
PrefixLess(a, b) ==
    LET d == ByteLen(a) - ByteLen(b)
    IN  IF d # 0 THEN d > 0 ELSE StrLess(a, b)

\* sort.Slice in init(): PrefixLess is a strict total order on the (distinct)
\* entries, so the sorted slice is the one in which every entry stands after
\* exactly the entries that are less than it
knownPrefixesBefore ==
    [j \in 1..Len(knownPrefixesDecl) |->
        Cardinality({k \in 1..Len(knownPrefixesDecl) :
                        PrefixLess(knownPrefixesDecl[k], knownPrefixesDecl[j])})]

\* knownPrefixes after init() has run
knownPrefixes ==
    [i \in 1..Len(knownPrefixesDecl) |->
        knownPrefixesDecl[CHOOSE j \in 1..Len(knownPrefixesDecl) :
                             knownPrefixesBefore[j] = i - 1]]

nonproductiveGrammemes ==
    <<"NUMR", "NPRO", "PRED", "PREP", "CONJ", "PRCL", "INTJ", "Apro">>

ProductiveAlways(tag) == TRUE

\* productive(tag)
productive(tag) ==
    \A k \in 1..Len(nonproductiveGrammemes) : ~Contains(tag, nonproductiveGrammemes[k])

\* wordSplits(s, minRemainder, maxPrefixLen): the pairs <<s[:i], s[i:]>>
wordSplits(s, minRemainder, maxPrefixLen) ==
    LET n == Min(maxPrefixLen, RuneCount(s) - minRemainder)
    IN  IF n <= 0 THEN <<>>
        ELSE [i \in 1..n |-> <<SubSeq(s, 1, i), SubSeq(s, i + 1, Len(s))>>]

\* split5(s): n is kept as the number of runes of s[:n]; every round steps
\* over the last rune of s[:n] (utf8.DecodeLastRuneInString gives size 0 on the
\* empty string) and breaks when n reaches 0
RECURSIVE split5From(_, _, _)
split5From(s, n, i) ==
    IF i >= 5 THEN <<>>
    ELSE LET size == IF n = 0 THEN 0 ELSE 1
             m == n - size
         IN  IF ByteLen(SubSeq(s, 1, m)) = 0 THEN <<>>
             ELSE <<<<SubSeq(s, 1, m), SubSeq(s, m + 1, Len(s))>>>>
                  \o split5From(s, m, i + 1)

split5(s) == split5From(s, Len(s), 0)

Features ==
    {"NOUN", "ADJF", "ADJS", "COMP", "VERB", "INFN", "PRTF", "PRTS", "GRND",
     "NUMR", "ADVB", "NPRO", "PRED", "PREP", "CONJ", "PRCL", "INTJ",
     "sing", "plur",
     "nomn", "gent", "datv", "accs", "ablt", "loct", "voct", "gen2", "acc2", "loc2",
     "1per", "2per", "3per",
     "pres", "past", "futr"}

\* emptyUnlessFeature(s)
emptyUnlessFeature(s) ==
    IF s = "loc1" THEN "loct"
    ELSE IF s = "gen1" THEN "gent"
    ELSE IF s \in Features THEN s
    ELSE ""

\* rFeature.ReplaceAllStringFunc(tag, emptyUnlessFeature): every maximal run of
\* characters other than " " and "," is replaced, the separators are kept
RECURSIVE ReplaceTokens(_, _)
ReplaceTokens(s, tok) ==
    IF s = "" THEN (IF tok = "" THEN "" ELSE emptyUnlessFeature(tok))
    ELSE IF Head(s) \in {" ", ","}
         THEN (IF tok = "" THEN "" ELSE emptyUnlessFeature(tok))
              \o Head(s) \o ReplaceTokens(Tail(s), "")
         ELSE ReplaceTokens(Tail(s), tok \o Head(s))

\* similarityFeatures(tag)
similarityFeatures(tag) == ReplaceTokens(tag, "")

-----------------------------------------------------------------------------
(* the dawg type.  Its source file is not part of the sources at hand; it is *)
(* modelled from the specification of the lexical automaton: a dawg holds    *)
(* its keys in traversal order, each with its payload records (already       *)
(* decoded into their big-endian uint16 fields), and an exact-match          *)
(* dictionary of integer values.                                             *)

\* the key spells the query, except that "ё" may stand where the query has "е"
SimilarKey(query, key) ==
    /\ Len(key) = Len(query)
    /\ \A i \in 1..Len(query) :
          \/ Char(key, i) = Char(query, i)
          \/ Char(query, i) = "e" /\ Char(key, i) = "0"

\* dawg.similarItems(word): the matching items, in traversal order
similarItems(dawg, word) ==
    SelectSeq(dawg.items, LAMBDA it : SimilarKey(word, it.key))

\* dawg.Dict.find(key): the value stored for key, 0 when there is none
find(dawg, key) ==
    IF \E k \in 1..Len(dawg.dict) : dawg.dict[k][1] = key
    THEN dawg.dict[CHOOSE k \in 1..Len(dawg.dict) : dawg.dict[k][1] = key][2]
    ELSE 0

-----------------------------------------------------------------------------
(* morph.go: Parse *)

Range(s) == {s[i] : i \in 1..Len(s)}

\* prefixSuffixTag(para, i); i and the table indices count from 0 as in Go
prefixSuffixTag(para, i) ==
    LET n == Len(para) \div 3
        suffixIndex == para[i + 1]
        tagIndex == para[i + n + 1]
        prefixIndex == para[i + 2 * n + 1]
    IN  <<prefixes[prefixIndex + 1], suffixes[suffixIndex + 1], tags[tagIndex + 1]>>

\* the index expressions of lines 76-79 and 237-241 are all within range; Go
\* panics with "index out of range" when one is not
InRange(paraNum, index) ==
    /\ paraNum < Len(paradigms)
    /\ LET para == paradigms[paraNum + 1]
           n == Len(para) \div 3
       IN  \A i \in {0, index} :
               /\ i + 2 * n < Len(para)
               /\ para[i + 1] < Len(suffixes)
               /\ para[i + n + 1] < Len(tags)
               /\ para[i + 2 * n + 1] < Len(prefixes)

OutOfRange == "index out of range"
NilDereference == "nil pointer dereference"

\* lines 81-87 (and 443-450): the normal form of key under form index of para
NormalForm(key, para, index) ==
    IF index # 0
    THEN LET pst == prefixSuffixTag(para, index)
             stem == TrimSuffix(TrimPrefix(key, pst[1]), pst[2])
             pst0 == prefixSuffixTag(para, 0)
         IN  pst0[1] \o stem \o pst0[2]
    ELSE key

\* the results of an analysis; panic is "" unless the call panicked
Result(ws, ns, ts) == [words |-> ws, norms |-> ns, tags |-> ts, panic |-> ""]
Empty == Result(<<>>, <<>>, <<>>)
Panicked(msg) == [words |-> <<>>, norms |-> <<>>, tags |-> <<>>, panic |-> msg]

AddWithoutNorm(acc, w, n, t) ==
    [acc EXCEPT !.words = Append(@, w), !.tags = Append(@, t)]

\* append one analysis to the three slices
Add(acc, w, n, t) ==
    [acc EXCEPT !.words = Append(@, w), !.norms = Append(@, n), !.tags = Append(@, t)]

\* the <<key, payload>> pairs in the order of the two nested range loops
RECURSIVE Payloads(_)
Payloads(items) ==
    IF items = <<>> THEN <<>>
    ELSE [k \in 1..Len(Head(items).values) |-> <<Head(items).key, Head(items).values[k]>>]
         \o Payloads(Tail(items))

\* type parse: Less and Swap
ParseLessOrEqual(p, i, j) == p.probs[i] >= p.probs[j]

ParseLess(p, i, j) == p.probs[i] > p.probs[j]

SwapAt(s, i, j) == [s EXCEPT ![i] = s[j], ![j] = s[i]]

ParseSwap(p, i, j) ==
    [words |-> SwapAt(p.words, i, j), norms |-> SwapAt(p.norms, i, j),
     tags |-> SwapAt(p.tags, i, j), probs |-> SwapAt(p.probs, i, j)]

\* sort.Stable on at most 20 elements is one insertion sort:
\* for i := a+1; i < b; i++ { for j := i; j > a && Less(j, j-1); j-- { Swap(j, j-1) } }
RECURSIVE SiftDown(_, _)
SiftDown(p, j) ==
    IF j > 1 /\ ParseLess(p, j, j - 1) THEN SiftDown(ParseSwap(p, j, j - 1), j - 1)
    ELSE p

RECURSIVE InsertionSort(_, _)
InsertionSort(p, i) ==
    IF i > Len(p.words) THEN p ELSE InsertionSort(SiftDown(p, i), i + 1)

SortStable(p) == InsertionSort(p, 2)

\* lines 73-99: the loop of Parse, giving the candidates in traversal order
RECURSIVE Candidates(_, _, _)
Candidates(word, pl, p) ==
    IF pl = <<>> THEN p
    ELSE LET key == Head(pl)[1]
             v == Head(pl)[2]
             para == paradigms[v[1] + 1]
             index == v[2]
             tag == prefixSuffixTag(para, index)[3]
             prob == find(probDAWG, word \o ":" \o tag)
         IN  Candidates(word, Tail(pl),
                 [words |-> Append(p.words, key),
                  norms |-> Append(p.norms, NormalForm(key, para, index)),
                  tags |-> Append(p.tags, tag),
                  probs |-> Append(p.probs, prob)])

NoCandidates == [words |-> <<>>, norms |-> <<>>, tags |-> <<>>, probs |-> <<>>]

\* the candidates of word before ranking
RawParse(word) == Candidates(word, Payloads(similarItems(wordsDAWG, word)), NoCandidates)

\* lines 94-96, 101: hasNonzeroProb
hasNonzeroProb(p) == \E i \in 1..Len(p.probs) : p.probs[i] > 0

\* lines 101-103: rank the candidates.  probs holds the integer weights; the
\* division by 1e6 in the code keeps their order
RankedParse(word) ==
    LET p == RawParse(word)
    IN  IF hasNonzeroProb(p) THEN SortStable(p) ELSE p

\* Parse(word)
Parse(word) ==
    IF probDAWG = Nil THEN Panicked("not initialized; call Init or InitWith")
    ELSE IF wordsDAWG = Nil THEN Panicked(NilDereference)
    ELSE IF \E it \in Range(similarItems(wordsDAWG, word)) :
                \E v \in Range(it.values) : ~InRange(v[1], v[2])
    THEN Panicked(OutOfRange)
    ELSE LET p == RankedParse(word) IN Result(p.words, p.norms, p.tags)


-----------------------------------------------------------------------------
(* extended.go: XParse.  Every stage is given the slices words, norms, tags  *)
(* as they stand when the code reaches it (acc) and gives back               *)
(*   res   the slices when it is left,                                       *)
(*   done  whether XParse returns from inside the stage,                     *)
(* and res.panic carries a panic of a call made by the stage.                *)

Out(res, done) == [res |-> res, done |-> done]

RECURSIVE XParseAt(_, _)

\* the arguments of the recursive calls of XParse
ParticleArg(word, suffix) == TrimSuffix(word, suffix)           \* line 310
PoArg(word) == ByteSliceFrom(word, 5)                           \* line 327
KnownPrefixArgWhole(word, prefix) == word

KnownPrefixArg(word, prefix) == TrimPrefix(word, prefix)        \* line 344
HyphenLeft(word) == SubSeq(word, 1, IndexHyphen(word) - 1)      \* lines 369-370
HyphenRightPart(word) == SubSeq(word, IndexHyphen(word) + 1, Len(word))

ReattachToWords(r, suffix) ==
    Result([i \in 1..Len(r.words) |-> r.words[i] \o suffix], r.norms, r.tags)

\* lines 313-316: the particle is put back on every word and norm
Reattach(r, suffix) ==
    Result([i \in 1..Len(r.words) |-> r.words[i] \o suffix],
           [i \in 1..Len(r.norms) |-> r.norms[i] \o suffix],
           r.tags)

\* lines 306-319: the loop over particlesAfterHyphen, from the k-th on
RECURSIVE ParticleLoop(_, _, _)
ParticleLoop(word, k, depth) ==
    IF k > Len(particlesAfterHyphen) THEN Out(Empty, FALSE)
    ELSE LET suffix == particlesAfterHyphen[k]
         IN  IF ~HasSuffix(word, suffix) THEN ParticleLoop(word, k + 1, depth)
             ELSE LET r == XParseAt(ParticleArg(word, suffix), depth + 1)
                  IN  IF r.panic # "" THEN Out(r, TRUE)
                      ELSE IF Len(r.words) > 0 THEN Out(Reattach(r, suffix), TRUE)
                      ELSE ParticleLoop(word, k + 1, depth)

\* lines 301-320
ParticleStage(word, depth) ==
    IF IndexHyphen(word) # 0 THEN ParticleLoop(word, 1, depth) ELSE Out(Empty, FALSE)

\* lines 329-331: the tag of a singular dative adjective
IsDativeAdjective(tag) == HasPrefix(tag, "ADJF") /\ Contains(tag, "sing,datv")

\* lines 326-336
PoStage(word, depth) ==
    IF RuneCount(word) >= 5 /\ HasPrefix(word, "po-")
    THEN LET r == XParseAt(PoArg(word), depth + 1)
             hits == {i \in 1..Len(r.tags) : IsDativeAdjective(r.tags[i])}
         IN  IF r.panic # "" THEN Out(r, TRUE)
             ELSE IF hits # {}
             THEN LET i == CHOOSE i \in hits : \A j \in hits : i <= j
                      w == "po-" \o r.words[i]
                  IN  Out(Result(<<w>>, <<w>>, <<"ADVB">>), TRUE)
             ELSE Out(Empty, FALSE)
    ELSE Out(Empty, FALSE)

\* lines 349-356 and 404-411: the productive analyses of r, each with prefix
\* put in front of its word and norm, are appended
RECURSIVE AppendProductive(_, _, _, _)
AppendProductive(acc, prefix, r, i) ==
    IF i > Len(r.tags) THEN acc
    ELSE AppendProductive(
             IF productive(r.tags[i])
             THEN Add(acc, prefix \o r.words[i], prefix \o r.norms[i], r.tags[i])
             ELSE acc,
             prefix, r, i + 1)

\* lines 341-347: the prefixes the loop does not skip, in the order of the list
MatchingPrefixes(word) ==
    SelectSeq(knownPrefixes,
              LAMBDA prefix : /\ HasPrefix(word, prefix)
                              /\ RuneCount(TrimPrefix(word, prefix)) >= 3)

\* lines 340-357: the loop over the prefixes that match
RECURSIVE KnownPrefixLoop(_, _, _, _)
KnownPrefixLoop(word, ps, acc, depth) ==
    IF ps = <<>> THEN acc
    ELSE LET prefix == Head(ps)
             r == XParseAt(KnownPrefixArg(word, prefix), depth + 1)
         IN  IF r.panic # "" THEN r
             ELSE KnownPrefixLoop(word, Tail(ps), AppendProductive(acc, prefix, r, 1),
                                  depth)

KnownPrefixNeverReturns(res) == FALSE

\* lines 358-360
KnownPrefixReturns(res) == Len(res.words) > 0

\* lines 340-360
KnownPrefixStage(word, acc, depth) ==
    LET res == KnownPrefixLoop(word, MatchingPrefixes(word), acc, depth)
    IN  Out(res, res.panic # "" \/ KnownPrefixReturns(res))

\* lines 366-367
HyphenApplies(word) ==
    /\ IndexHyphen(word) # 0
    /\ CountHyphen(word) = 1
    /\ ~HasPrefix(word, "-")
    /\ ~HasSuffix(word, "-")

RECURSIVE HyphenPairsRightTag(_, _, _, _, _)
HyphenPairsRightTag(acc, l, r, i, j) ==
    IF i > Len(l.tags) THEN acc
    ELSE IF j > Len(r.tags) THEN HyphenPairsRightTag(acc, l, r, i + 1, 1)
    ELSE HyphenPairsRightTag(
             IF similarityFeatures(l.tags[i]) # similarityFeatures(r.tags[j]) THEN acc
             ELSE Add(acc, l.words[i] \o "-" \o r.words[j],
                           l.norms[i] \o "-" \o r.norms[j], r.tags[j]),
             l, r, i, j + 1)

\* lines 377-387: the pairs of a left and a right analysis whose features agree
RECURSIVE HyphenPairs(_, _, _, _, _)
HyphenPairs(acc, l, r, i, j) ==
    IF i > Len(l.tags) THEN acc
    ELSE IF j > Len(r.tags) THEN HyphenPairs(acc, l, r, i + 1, 1)
    ELSE HyphenPairs(
             IF similarityFeatures(l.tags[i]) # similarityFeatures(r.tags[j]) THEN acc
             ELSE Add(acc, l.words[i] \o "-" \o r.words[j],
                           l.norms[i] \o "-" \o r.norms[j], l.tags[i]),
             l, r, i, j + 1)

\* lines 388-392: the right analyses behind the unchanged left part
RECURSIVE HyphenRight(_, _, _, _)
HyphenRight(acc, left, r, i) ==
    IF i > Len(r.tags) THEN acc
    ELSE HyphenRight(Add(acc, left \o "-" \o r.words[i], left \o "-" \o r.norms[i],
                         r.tags[i]),
                     left, r, i + 1)

\* lines 393-395
HyphenReturns(res) == Len(res.words) > 0

\* lines 366-396
HyphenStage(word, acc, depth) ==
    IF HyphenApplies(word)
    THEN LET left == HyphenLeft(word)
             l == XParseAt(left, depth + 1)
             r == XParseAt(HyphenRightPart(word), depth + 1)
         IN  IF l.panic # "" THEN Out(l, TRUE)
             ELSE IF r.panic # "" THEN Out(r, TRUE)
             ELSE LET res == HyphenRight(HyphenPairs(acc, l, r, 1, 1), left, r, 1)
                  IN  Out(res, HyphenReturns(res))
    ELSE Out(acc, FALSE)

\* lines 401-412
RECURSIVE UnknownPrefixLoop(_, _)
UnknownPrefixLoop(splits, acc) ==
    IF splits = <<>> THEN acc
    ELSE LET r == Parse(Head(splits)[2])
         IN  IF r.panic # "" THEN r
             ELSE UnknownPrefixLoop(Tail(splits),
                      AppendProductive(acc, Head(splits)[1], r, 1))

UnknownPrefixStage(word, acc) == UnknownPrefixLoop(wordSplits(word, 3, 5), acc)

\* lines 452-456: the triple is among those collected so far
Collected(acc, word, norm, tag) ==
    \E i \in 1..Len(acc.tags) :
        acc.tags[i] = tag /\ acc.words[i] = word /\ acc.norms[i] = norm

\* lines 430-461: the payloads of one item, from the k-th on.  st.acc are the
\* slices, st.total is totalCount and st.class is id; st.log is history: the
\* substrings looked up so far, each with its class and with totalCount as it
\* is when line 463 tests it.  A triple already collected ends the work on
\* this item (continue sloop)
RECURSIVE PredictValues(_, _, _, _, _)
PredictValues(st, wordStart, key, values, k) ==
    IF k > Len(values) THEN st
    ELSE IF ~InRange(values[k][2], values[k][3]) THEN [st EXCEPT !.acc = Panicked(OutOfRange)]
    ELSE LET v == values[k]
             count == v[1]
             para == paradigms[v[2] + 1]
             index == v[3]
             tag == prefixSuffixTag(para, index)[3]
             word == wordStart \o key
             norm == NormalForm(word, para, index)
         IN  IF ~productive(tag) THEN PredictValues(st, wordStart, key, values, k + 1)
             ELSE IF Collected(st.acc, word, norm, tag)
                  THEN [st EXCEPT !.total = @ + count]
             ELSE PredictValues([st EXCEPT !.acc = Add(st.acc, word, norm, tag),
                                           !.total = @ + count],
                                wordStart, key, values, k + 1)

\* lines 429-462: the items found for one trailing substring
RECURSIVE PredictItems(_, _, _)
PredictItems(st, wordStart, items) ==
    IF items = <<>> \/ st.acc.panic # "" THEN st
    ELSE PredictItems(PredictValues(st, wordStart, Head(items).key, Head(items).values, 1),
                      wordStart, Tail(items))

\* lines 463-465
EnoughEvidence(totalCount) == totalCount > 1

\* lines 425-466: the splits from the i-th down to the first
RECURSIVE PredictSplits(_, _, _, _)
PredictSplits(st, dawg, splits, i) ==
    IF i < 1 THEN st
    ELSE LET st1 == PredictItems(st, splits[i][1], similarItems(dawg, splits[i][2]))
             st2 == [st1 EXCEPT !.log = Append(@, [class |-> st.class,
                                                   wordEnd |-> splits[i][2],
                                                   total |-> st1.total])]
         IN  IF st2.acc.panic # "" \/ EnoughEvidence(st2.total) THEN st2
             ELSE PredictSplits(st2, dawg, splits, i - 1)

\* lines 419-467: the prefix classes from id on (id counts from 0)
RECURSIVE PredictClasses(_, _, _, _)
PredictClasses(st, word, splits, id) ==
    IF id >= Len(prefixes) \/ st.acc.panic # "" THEN st
    ELSE IF ~HasPrefix(word, prefixes[id + 1]) THEN PredictClasses(st, word, splits, id + 1)
    ELSE IF id >= Len(predictionDAWGs) THEN [st EXCEPT !.acc = Panicked(OutOfRange)]
    ELSE PredictClasses(
             PredictSplits([st EXCEPT !.total = 0, !.class = id],      \* 423
                           predictionDAWGs[id + 1], splits, Len(splits)),
             word, splits, id + 1)

\* lines 417-468, with the history of the lookups
PredictionRun(word, acc) ==
    LET st == [acc |-> acc, total |-> 0, class |-> 0, log |-> <<>>]
    IN  IF acc.panic = "" /\ RuneCount(word) >= 4
        THEN PredictClasses(st, word, split5(word), 0)
        ELSE st

\* lines 417-468
PredictionStage(word, acc) == PredictionRun(word, acc).acc

DictionaryNeverWins(p) == FALSE

\* lines 297-299
DictionaryWins(p) == Len(p.words) > 0

\* the deepest recursion of XParse that is followed; a call below it has
\* outgrown the goroutine's stack, which ends the program
MaxDepth == 12
StackOverflow == "stack overflow"

\* XParse(word) as the call at depth of the recursion (0: the caller's)
XParseAt(word0, depth) ==
    LET word == ToLower(word0)
        p == Parse(word)
    IN  IF depth > MaxDepth THEN Panicked(StackOverflow)
        ELSE IF p.panic # "" \/ DictionaryWins(p) THEN p
        ELSE LET a == ParticleStage(word, depth)
             IN  IF a.done THEN a.res
        ELSE LET b == PoStage(word, depth)
             IN  IF b.done THEN b.res
        ELSE LET c == KnownPrefixStage(word, p, depth)
             IN  IF c.done THEN c.res
        ELSE LET d == HyphenStage(word, c.res, depth)
             IN  IF d.done THEN d.res
        ELSE PredictionStage(word, UnknownPrefixStage(word, d.res))

\* XParse(word)
XParse(word0) == XParseAt(word0, 0)

-----------------------------------------------------------------------------
(* dictionary directories: what InitWith can find on disk.  A file is        *)
(* present and well formed (ok), absent (missing) or unreadable (malformed). *)

OkFile(data) == [st |-> "ok", data |-> data]
MissingFile == [st |-> "missing", data |-> <<>>]
MalformedFile == [st |-> "malformed", data |-> <<>>]

Item(key, values) == [key |-> key, values |-> values]
Dawg(items, dict) == [nil |-> FALSE, items |-> items, dict |-> dict]

\* gramtab-opencorpora-int.json
TagsA == <<
    "NOUN,anim,masc sing,nomn",        \* 0
    "NOUN,anim,masc sing,gent",        \* 1
    "NOUN,anim,masc sing,datv",        \* 2
    "ADJF,Qual masc,sing,nomn",        \* 3
    "ADJF,Qual masc,sing,datv",        \* 4
    "COMP,Qual",                       \* 5
    "ADVB",                            \* 6
    "CONJ",                            \* 7
    "PRCL",                            \* 8
    "ADJF,Subx,Apro masc,sing,nomn",   \* 9
    "ADJF,Subx,Apro plur,nomn",        \* 10
    "ADJF,Subx,Apro neut,sing,nomn",   \* 11
    "INFN,perf,tran",                  \* 12
    "VERB,perf,tran sing,impr,excl",   \* 13
    "NOUN,inan,masc sing,nomn",        \* 14
    "NOUN,inan,masc sing,accs",        \* 15
    "NPRO,masc sing,nomn",             \* 16
    "NOUN,inan,femn sing,nomn",        \* 17
    "NOUN,inan,femn plur,gent" >>      \* 18

\* suffixes.json:  0   1    2    3     4      5     6     7    8      9     10
SuffixesA == <<"", "a", "u", "oj", "omu", "ee", "t1", "j", "es1", "se", "s0">>

\* paradigm-prefixes.json
PrefixesA == <<"", "po", "nai">>

\* morph.go:146, the prefixes used when paradigm-prefixes.json does not exist
DefaultPrefixes == <<"", "po", "nai">>

\* paradigms.array: suffix indices, tag indices, prefix indices of each paradigm
ParadigmsA == <<
    <<0, 1, 2,   0, 1, 2,    0, 0, 0>>,     \* 0  кот, кота, коту
    <<3, 4, 5,   3, 4, 5,    0, 0, 1>>,     \* 1  злой, злому, позлее
    <<0,   6,   0>>,                        \* 2  adverb
    <<0,   7,   0>>,                        \* 3  conjunction
    <<0,   8,   0>>,                        \* 4  particle
    <<8, 9, 10,  9, 10, 11,  0, 0, 0>>,     \* 5  весь, все, всё
    <<6, 7,   12, 13,   0, 0>>,             \* 6  дать, дай
    <<0, 0,   14, 15,   0, 0>>,             \* 7  код (nomn), код (accs)
    <<0,   16,  0>>,                        \* 8  pronoun
    <<1, 0,   17, 18,   0, 0>> >>           \* 9  кода, код (plur gent)

\* words.dawg: payloads are <<paradigm, form index>>
WordsA == Dawg(<<
    Item("vse", << <<5, 1>> >>),
    Item("vs0", << <<4, 0>>, <<5, 2>> >>),
    Item("daj", << <<6, 1>> >>),
    Item("dat1", << <<6, 0>> >>),
    Item("zloj", << <<1, 0>> >>),
    Item("zlomu", << <<1, 1>> >>),
    Item("kak", << <<2, 0>>, <<3, 0>>, <<4, 0>> >>),
    Item("kak-to", << <<2, 0>> >>),
    Item("kod", << <<7, 0>>, <<7, 1>> >>),
    Item("kot", << <<0, 0>> >>),
    Item("kota", << <<0, 1>> >>),
    Item("kotu", << <<0, 2>> >>),
    Item("kto", << <<8, 0>> >>),
    Item("pozlee", << <<1, 2>> >>),
    Item("0j", << <<0, 0>> >>) >>, <<>>)

\* p_t_given_w.intdawg
ProbA == Dawg(<<>>, <<
    <<"kod:NOUN,inan,masc sing,accs", 600000>>,
    <<"kod:NOUN,inan,masc sing,nomn", 400000>>,
    <<"kak:CONJ", 500000>>,
    <<"kak:ADVB", 300000>>,
    <<"vse:PRCL", 100000>> >>)

\* prediction-suffixes-N.dawg: payloads are <<count, paradigm, form index>>
Prediction0A == Dawg(<<
    Item("ak", << <<5, 3, 0>> >>),
    Item("kot", << <<2, 0, 0>> >>),
    Item("od", << <<1, 7, 0>>, <<1, 9, 1>> >>),
    Item("omu", << <<1, 1, 1>> >>),
    Item("ot", << <<1, 0, 0>> >>),
    Item("u", << <<1, 0, 2>>, <<1, 7, 0>> >>) >>, <<>>)
Prediction1A == Dawg(<< Item("ee", << <<2, 1, 2>> >>) >>, <<>>)
Prediction2A == Dawg(<< Item("oj", << <<1, 1, 0>> >>) >>, <<>>)

DirAFiles == [tags |-> OkFile(TagsA), prefixes |-> OkFile(PrefixesA),
         suffixes |-> OkFile(SuffixesA), paradigms |-> OkFile(ParadigmsA),
         words |-> OkFile(WordsA), prob |-> OkFile(ProbA),
         prediction |-> <<OkFile(Prediction0A), OkFile(Prediction1A),
                          OkFile(Prediction2A)>>]

\* a second dictionary: no prefix list on disk, fewer words, other weights
WordsB == Dawg(<<
    Item("vse", << <<5, 1>> >>),
    Item("vs0", << <<4, 0>>, <<5, 2>> >>),
    Item("zlomu", << <<1, 1>> >>),
    Item("kak", << <<2, 0>>, <<3, 0>>, <<4, 0>> >>),
    Item("kod", << <<7, 0>>, <<7, 1>>, <<9, 1>> >>),
    Item("kot", << <<0, 0>> >>),
    Item("kotu", << <<0, 2>> >>) >>, <<>>)

ProbB == Dawg(<<>>, <<
    <<"kod:NOUN,inan,femn plur,gent", 500000>>,
    <<"kod:NOUN,inan,masc sing,nomn", 500000>>,
    <<"kak:PRCL", 200000>>,
    <<"kak:ADVB", 200000>> >>)

DirBFiles == [DirAFiles EXCEPT !.prefixes = MissingFile, !.words = OkFile(WordsB),
                                !.prob = OkFile(ProbB)]

GoodDirs == {"dirA", "dirB"}
BadDirs == {"noTags", "badPrefixes", "noSuffixes", "shortParadigms", "noWords",
            "noProb", "noPrediction"}
Dirs == GoodDirs \cup BadDirs

\* the files of a directory; in the bad ones a resource is absent or broken
Files(dir) ==
    CASE dir = "dirA" -> DirAFiles
      [] dir = "dirB" -> DirBFiles
      [] dir = "noTags" -> [DirAFiles EXCEPT !.tags = MissingFile]
      [] dir = "badPrefixes" -> [DirAFiles EXCEPT !.prefixes = MalformedFile]
      [] dir = "noSuffixes" -> [DirBFiles EXCEPT !.suffixes = MissingFile]
      [] dir = "shortParadigms" ->
           [DirAFiles EXCEPT !.paradigms =
                [st |-> "malformed", data |-> SubSeq(ParadigmsA, 1, 2)]]
      [] dir = "noWords" -> [DirBFiles EXCEPT !.words = MissingFile]
      [] dir = "noProb" -> [DirAFiles EXCEPT !.prob = MissingFile]
      [] dir = "noPrediction" -> [DirAFiles EXCEPT !.prediction = SubSeq(@, 1, 1)]

\* the words handed to Parse and XParse: those of the pool that are not
\* longer than MaxWordLen
MaxWordLen == 8

WordPool == {
    "Kot", "vse", "kak", "kod", "mrak",
    "kak-to", "nekot-to", "daj-ka", "xyz-to",
    "po-zlomu", "po-kotu",
    "nekak", "nekto", "anti-kot",
    "kot-kod",
    "bajtkod", "butkot", "pobelee",
    "kot-to-ka" }

Words == {w \in WordPool : Len(w) <= MaxWordLen}

-----------------------------------------------------------------------------
(* morph.go: Init and InitWith.  InitWith is written as the steps between    *)
(* which another call can run; a call alone runs them to the end.            *)

ErrAlreadyInitialized == "already initialized"
ErrLoad == "load error"
NoError == "nil"

\* the process-wide variables as one record
G == [tags |-> tags, prefixes |-> prefixes, suffixes |-> suffixes,
      paradigms |-> paradigms, wordsDAWG |-> wordsDAWG, probDAWG |-> probDAWG,
      predictionDAWGs |-> predictionDAWGs]

\* the zero values of the package variables
ZeroGlobals == [tags |-> <<>>, prefixes |-> <<>>, suffixes |-> <<>>,
                paradigms |-> <<>>, wordsDAWG |-> Nil, probDAWG |-> Nil,
                predictionDAWGs |-> <<>>]

SetGlobals(g) ==
    /\ tags' = g.tags
    /\ prefixes' = g.prefixes
    /\ suffixes' = g.suffixes
    /\ paradigms' = g.paradigms
    /\ wordsDAWG' = g.wordsDAWG
    /\ probDAWG' = g.probDAWG
    /\ predictionDAWGs' = g.predictionDAWGs

\* loadStringArray(fn): the slice (nil on error) and the error
loadStringArray(file) ==
    IF file.st = "ok" THEN [val |-> file.data, err |-> NoError, notExist |-> FALSE]
    ELSE [val |-> <<>>, err |-> ErrLoad, notExist |-> file.st = "missing"]

\* newDAWG(path): the dawg (nil on error) and the error
newDAWG(file) ==
    IF file.st = "ok" THEN [val |-> file.data, err |-> NoError]
    ELSE [val |-> Nil, err |-> ErrLoad]

\* the file prediction-suffixes-<i>.dawg of the directory (i counts from 0)
PredictionFile(files, i) ==
    IF i < Len(files.prediction) THEN files.prediction[i + 1] ELSE MissingFile

\* lines 110 and 123
AlreadyInitializedNever(g) == FALSE

AlreadyInitialized(g) == g.probDAWG # Nil

\* the frame of a call of InitWith(dir) that has not run yet
Frame(dir) == [pc |-> "guard", dir |-> dir, i |-> 0, ret |-> NoError, wrote |-> FALSE]

Return(g, f, err) == [g |-> g, f |-> [f EXCEPT !.pc = "done", !.ret = err]]
Goto(g, f, next) == [g |-> g, f |-> [f EXCEPT !.pc = next, !.wrote = TRUE]]

\* one step of InitWith on the process-wide state g
InitWithStep(g, f) ==
    LET files == Files(f.dir)
    IN  CASE f.pc = "guard" ->                                      \* 123-125
               IF AlreadyInitialized(g) THEN Return(g, f, ErrAlreadyInitialized)
               ELSE [g |-> g, f |-> [f EXCEPT !.pc = "tags"]]
          [] f.pc = "tags" ->                                       \* 136-139
               LET r == loadStringArray(files.tags)
                   g2 == [g EXCEPT !.tags = r.val]
               IN  IF r.err # NoError
                   THEN Return(g2, [f EXCEPT !.wrote = TRUE], r.err)
                   ELSE Goto(g2, f, "prefixes")
          [] f.pc = "prefixes" ->                                   \* 141-147
               LET r == loadStringArray(files.prefixes)
                   g2 == [g EXCEPT !.prefixes = r.val]
               IN  IF r.err # NoError
                   THEN IF ~r.notExist
                        THEN Return(g2, [f EXCEPT !.wrote = TRUE], r.err)
                        ELSE Goto([g EXCEPT !.prefixes = DefaultPrefixes], f, "suffixes")
                   ELSE Goto(g2, f, "suffixes")
          [] f.pc = "suffixes" ->                                   \* 149-152
               LET r == loadStringArray(files.suffixes)
                   g2 == [g EXCEPT !.suffixes = r.val]
               IN  IF r.err # NoError
                   THEN Return(g2, [f EXCEPT !.wrote = TRUE], r.err)
                   ELSE Goto(g2, f, "words")
          [] f.pc = "words" ->                                      \* 154-161
               \* loadParadigms: nothing is assigned when the file cannot be
               \* opened; otherwise paradigms holds what was read before an error
               IF files.paradigms.st = "missing" THEN Return(g, f, ErrLoad)
               ELSE LET g2 == [g EXCEPT !.paradigms = files.paradigms.data]
                    IN  IF files.paradigms.st # "ok"
                        THEN Return(g2, [f EXCEPT !.wrote = TRUE], ErrLoad)
                        ELSE LET r == newDAWG(files.words)
                                 g3 == [g2 EXCEPT !.wordsDAWG = r.val]
                             IN  IF r.err # NoError
                                 THEN Return(g3, [f EXCEPT !.wrote = TRUE], r.err)
                                 ELSE Goto(g3, f, "prob")
          [] f.pc = "prob" ->                                       \* 163-166
               LET r == newDAWG(files.prob)
                   g2 == [g EXCEPT !.probDAWG = r.val]
               IN  IF r.err # NoError
                   THEN Return(g2, [f EXCEPT !.wrote = TRUE], r.err)
                   ELSE Goto(g2, f, "prediction")
          [] f.pc = "prediction" ->                                 \* 168
               Goto([g EXCEPT !.predictionDAWGs = <<>>], [f EXCEPT !.i = 0], "loop")
          [] f.pc = "loop" ->                                       \* 169-178
               IF f.i < Len(g.prefixes)
               THEN LET r == newDAWG(PredictionFile(files, f.i))
                    IN  IF r.err # NoError THEN Return(g, f, r.err)
                        ELSE Goto([g EXCEPT !.predictionDAWGs = Append(@, r.val)],
                                  [f EXCEPT !.i = @ + 1], "loop")
               ELSE Return(g, f, NoError)

\* InitWith(dir) run from a frame to its return
RECURSIVE RunInitWith(_, _)
RunInitWith(g, f) ==
    IF f.pc = "done" THEN [g |-> g, f |-> f]
    ELSE LET n == InitWithStep(g, f) IN RunInitWith(n.g, n.f)

\* InitWith(dir)
InitWith(g, dir) == RunInitWith(g, Frame(dir))

\* dataPath(): the directory python reports, or an error when python fails
NoPath == "python failed"
DataPaths == {NoPath, "dirA", "noProb"}

\* Init(), path being what dataPath() comes back with
InitFn(g, path) ==
    IF AlreadyInitialized(g) THEN Return(g, Frame(path), ErrAlreadyInitialized)
    ELSE IF path = NoPath THEN Return(g, Frame(path), ErrLoad)
    ELSE InitWith(g, path)

-----------------------------------------------------------------------------
(* calls made one after the other *)

NoCall == [op |-> "none", arg |-> "", err |-> NoError, res |-> Empty]
NotHeld == [op |-> "none", arg |-> "", res |-> Empty, later |-> FALSE]

\* history: the first result handed out stays with its caller; later tells
\* that Parse or XParse has been called again since
Hold(op, word, res) ==
    held' = IF held # NotHeld THEN [held EXCEPT !.later = TRUE]
            ELSE IF res.panic = ""
            THEN [op |-> op, arg |-> word, res |-> res, later |-> FALSE]
            ELSE held

CallInit(path) ==
    LET n == InitFn(G, path)
    IN  /\ SetGlobals(n.g)
        /\ call' = [op |-> "Init", arg |-> path, err |-> n.f.ret, res |-> Empty]
        /\ loaded' = (loaded \/ n.f.ret = NoError)
        /\ UNCHANGED <<held, conc>>

CallInitWith(dir) ==
    LET n == InitWith(G, dir)
    IN  /\ SetGlobals(n.g)
        /\ call' = [op |-> "InitWith", arg |-> dir, err |-> n.f.ret, res |-> Empty]
        /\ loaded' = (loaded \/ n.f.ret = NoError)
        /\ UNCHANGED <<held, conc>>

CallParse(word) ==
    LET res == Parse(word)
    IN  /\ call' = [op |-> "Parse", arg |-> word, err |-> NoError, res |-> res]
        /\ Hold("Parse", word, res)
        /\ UNCHANGED <<globals, loaded, conc>>

CallXParse(word) ==
    LET res == XParse(word)
    IN  /\ call' = [op |-> "XParse", arg |-> word, err |-> NoError, res |-> res]
        /\ Hold("XParse", word, res)
        /\ UNCHANGED <<globals, loaded, conc>>

Procs == {1, 2}

Init ==
    /\ tags = <<>>
    /\ prefixes = <<>>
    /\ suffixes = <<>>
    /\ paradigms = <<>>
    /\ wordsDAWG = Nil
    /\ probDAWG = Nil
    /\ predictionDAWGs = <<>>
    /\ call = NoCall
    /\ loaded = FALSE
    /\ held = NotHeld
    /\ pc = [p \in Procs |-> "idle"]
    /\ ldir = [p \in Procs |-> ""]
    /\ li = [p \in Procs |-> 0]
    /\ wrote = [p \in Procs |-> FALSE]
    /\ lret = [p \in Procs |-> NoError]
    /\ overlap = FALSE

Next ==
    \/ \E path \in DataPaths : CallInit(path)
    \/ \E dir \in Dirs : CallInitWith(dir)
    \/ \E word \in Words : CallParse(word)
    \/ \E word \in Words : CallXParse(word)

Spec == Init /\ [][Next]_vars

-----------------------------------------------------------------------------
(* two calls of Init / InitWith made by two goroutines: the steps of the two *)
(* calls interleave, since the code takes no lock                            *)

Running(p) == pc[p] \notin {"idle", "done"}

FrameOf(p) == [pc |-> pc[p], dir |-> ldir[p], i |-> li[p], ret |-> lret[p],
               wrote |-> wrote[p]]

SetFrame(p, f) ==
    /\ pc' = [pc EXCEPT ![p] = f.pc]
    /\ ldir' = [ldir EXCEPT ![p] = f.dir]
    /\ li' = [li EXCEPT ![p] = f.i]
    /\ lret' = [lret EXCEPT ![p] = f.ret]
    /\ wrote' = [wrote EXCEPT ![p] = f.wrote]

\* goroutine p calls Init(); path is what dataPath() will come back with
BeginInit(p, path) ==
    /\ pc[p] = "idle"
    /\ SetFrame(p, [Frame(path) EXCEPT !.pc = "init"])
    /\ overlap' = (overlap \/ \E q \in Procs : Running(q))
    /\ UNCHANGED <<globals, call, loaded, held>>

\* goroutine p calls InitWith(dir)
BeginInitWith(p, dir) ==
    /\ pc[p] = "idle"
    /\ SetFrame(p, Frame(dir))
    /\ overlap' = (overlap \/ \E q \in Procs : Running(q))
    /\ UNCHANGED <<globals, call, loaded, held>>

\* lines 110-118 of Init(), up to its call of InitWith
InitGuard(p) ==
    /\ pc[p] = "init"
    /\ LET f == FrameOf(p)
       IN  IF AlreadyInitialized(G) THEN SetFrame(p, Return(G, f, ErrAlreadyInitialized).f)
           ELSE IF ldir[p] = NoPath THEN SetFrame(p, Return(G, f, ErrLoad).f)
           ELSE SetFrame(p, [f EXCEPT !.pc = "guard"])
    /\ UNCHANGED <<globals, call, loaded, held, overlap>>

\* the next step of the InitWith that goroutine p is in
LoadStep(p) ==
    /\ Running(p)
    /\ pc[p] # "init"
    /\ LET n == InitWithStep(G, FrameOf(p))
       IN  /\ SetGlobals(n.g)
           /\ SetFrame(p, n.f)
           /\ loaded' = (loaded \/ (n.f.pc = "done" /\ n.f.ret = NoError))
    /\ UNCHANGED <<call, held, overlap>>

NextConc ==
    \/ \E p \in Procs, path \in DataPaths : BeginInit(p, path)
    \/ \E p \in Procs, dir \in Dirs : BeginInitWith(p, dir)
    \/ \E p \in Procs : InitGuard(p)
    \/ \E p \in Procs : LoadStep(p)

SpecConc == Init /\ [][NextConc]_vars

-----------------------------------------------------------------------------
(* properties *)

IsAnalysis == call.op \in {"Parse", "XParse"} /\ call.res.panic = ""
IsXParse == call.op = "XParse" /\ call.res.panic = ""

\* the stage of XParse that gives the result for word
Producer(word0) ==
    LET word == ToLower(word0)
        p == Parse(word)
    IN  IF DictionaryWins(p) THEN "dictionary"
        ELSE IF ParticleStage(word, 0).done THEN "particle"
        ELSE IF PoStage(word, 0).done THEN "po"
        ELSE IF KnownPrefixStage(word, Empty, 0).done THEN "known"
        ELSE IF HyphenStage(word, Empty, 0).done THEN "hyphen"
        ELSE "guess"

\* C1: the three lists returned by Parse and by XParse have the same length,
\* whichever stage or combination of stages gave the result
C1_SameLength ==
    IsAnalysis =>
        /\ Len(call.res.words) = Len(call.res.norms)
        /\ Len(call.res.norms) = Len(call.res.tags)

\* a result of XParse built by a fallback stage from recursive analyses
C1_Witness ==
    /\ IsXParse
    /\ Producer(call.arg) \in {"known", "hyphen"}
    /\ Len(call.res.words) >= 2

\* C2: when Parse finds the lowercased word in the dictionary, XParse returns
\* exactly the lists of Parse, in the same order
C2_DictionaryPrecedence ==
    IsXParse =>
        LET p == Parse(ToLower(call.arg))
        IN  Len(p.words) > 0 =>
                /\ call.res.words = p.words
                /\ call.res.norms = p.norms
                /\ call.res.tags = p.tags

\* XParse of a dictionary word that a fallback stage could analyse as well
C2_Witness ==
    /\ IsXParse
    /\ LET word == ToLower(call.arg)
       IN  /\ Len(Parse(word).words) > 0
           /\ \E k \in 1..Len(particlesAfterHyphen) :
                 /\ HasSuffix(word, particlesAfterHyphen[k])
                 /\ Len(XParse(TrimSuffix(word, particlesAfterHyphen[k])).words) > 0

\* the weight of candidate k of word: the value found for word:tag
Weight(word, raw, k) == find(probDAWG, word \o ":" \o raw.tags[k])

Orderings(n) == {f \in [1..n -> 1..n] : \A i, j \in 1..n : f[i] = f[j] => i = j}

\* C3: the result of Parse is the candidates in lookup order, permuted as one
\* list of triples: by non-increasing weight with equal weights in lookup
\* order when some weight is positive, and not at all when every weight is 0
C3_Ranking ==
    (call.op = "Parse" /\ call.res.panic = "") =>
        LET raw == RawParse(call.arg)
            n == Len(raw.words)
            w(k) == Weight(call.arg, raw, k)
        IN  /\ Len(call.res.words) = n
            /\ \E f \in Orderings(n) :
                  /\ \A i \in 1..n :
                        /\ call.res.words[i] = raw.words[f[i]]
                        /\ call.res.norms[i] = raw.norms[f[i]]
                        /\ call.res.tags[i] = raw.tags[f[i]]
                  /\ IF \E k \in 1..n : w(k) > 0
                     THEN \A i, j \in 1..n :
                              i < j => \/ w(f[i]) > w(f[j])
                                       \/ w(f[i]) = w(f[j]) /\ f[i] < f[j]
                     ELSE \A i \in 1..n : f[i] = i

\* Parse has reordered candidates of which two have the same weight
C3_Witness ==
    /\ call.op = "Parse"
    /\ call.res.panic = ""
    /\ LET raw == RawParse(call.arg)
       IN  /\ call.res.tags # raw.tags
           /\ \E i, j \in 1..Len(raw.tags) :
                 i # j /\ Weight(call.arg, raw, i) = Weight(call.arg, raw, j)

\* C4: once an initialization has succeeded, every call of Init or InitWith
\* returns ErrAlreadyInitialized and changes no process-wide variable
C4_RejectReinit ==
    [][(loaded /\ call'.op \in {"Init", "InitWith"}) =>
           (call'.err = ErrAlreadyInitialized /\ UNCHANGED globals)]_vars

\* a loaded dictionary and a later InitWith, with another directory, rejected
C4_Witness ==
    /\ loaded
    /\ call.op = "InitWith"
    /\ call.err = ErrAlreadyInitialized
    /\ call.arg = "dirB"
    /\ tags = TagsA /\ wordsDAWG = WordsA

\* C5: a call of InitWith that fails on a missing or malformed resource leaves
\* every process-wide variable with the value it had before the call
C5_NoPartialState ==
    [][(call'.op = "InitWith" /\ call'.err = ErrLoad) => UNCHANGED globals]_vars

\* the non-productive grammemes, as the claim lists them
ClosedClasses == {"NUMR", "NPRO", "PRED", "PREP", "CONJ", "PRCL", "INTJ", "Apro"}

\* C6: no analysis produced by the known-prefix, the unknown-prefix or the
\* prediction stage has a tag containing a non-productive grammeme
C6_ProductiveOnly ==
    (IsXParse /\ Producer(call.arg) \in {"known", "guess"}) =>
        \A i \in 1..Len(call.res.tags) :
            \A g \in ClosedClasses : ~Contains(call.res.tags[i], g)

\* the known-prefix stage gave a result although the analysis of the rest of
\* the word has a non-productive tag
C6_Witness ==
    /\ IsXParse
    /\ Producer(call.arg) = "known"
    /\ Len(call.res.tags) > 0
    /\ \E k \in 1..Len(MatchingPrefixes(ToLower(call.arg))) :
          LET r == XParse(TrimPrefix(ToLower(call.arg),
                                     MatchingPrefixes(ToLower(call.arg))[k]))
          IN  \E i \in 1..Len(r.tags) : \E g \in ClosedClasses : Contains(r.tags[i], g)

\* call.arg is base + "-" + particle for the k-th particle, base analysable
ParticleForm(k) ==
    /\ HasSuffix(call.arg, particlesAfterHyphen[k])
    /\ Len(XParse(TrimSuffix(call.arg, particlesAfterHyphen[k])).words) > 0

ParticleRoundTrip(k) ==
    LET suffix == particlesAfterHyphen[k]
        base == XParse(TrimSuffix(call.arg, suffix))
    IN  /\ \A i \in 1..Len(call.res.words) : HasSuffix(call.res.words[i], suffix)
        /\ \A i \in 1..Len(call.res.norms) : HasSuffix(call.res.norms[i], suffix)
        /\ call.res.tags = base.tags

\* C7 as stated: for every analysable base, the words and norms of
\* XParse(base-particle) end with -particle and its tags are those of XParse(base)
C7_ParticleAlways ==
    IsXParse =>
        \A k \in 1..Len(particlesAfterHyphen) : ParticleForm(k) => ParticleRoundTrip(k)

\* C7 amended: the same, for the words base-particle that Parse does not find
\* in the dictionary
C7_ParticleUnlessInDictionary ==
    IsXParse =>
        \A k \in 1..Len(particlesAfterHyphen) :
            (ParticleForm(k) /\ Len(Parse(ToLower(call.arg)).words) = 0)
                => ParticleRoundTrip(k)

\* the particle stage gave the result, and the normal form differs from the word
C7_Witness ==
    /\ IsXParse
    /\ \E k \in 1..Len(particlesAfterHyphen) : ParticleForm(k)
    /\ Len(Parse(ToLower(call.arg)).words) = 0
    /\ \E i \in 1..Len(call.res.words) : call.res.words[i] # call.res.norms[i]

\* C8: after a successful initialization no call of Parse or XParse changes a
\* process-wide variable, and a call repeated with the same word returns the
\* lists the first call returned
C8_SameResult ==
    (loaded /\ IsAnalysis /\ held # NotHeld
        /\ call.op = held.op /\ call.arg = held.arg) => call.res = held.res

C9_ExclusiveLoading ==
    (overlap /\ \A p \in Procs : pc[p] = "done") =>
        \A p, q \in Procs :
            (p # q /\ lret[p] = NoError /\ lret[q] # ErrLoad) =>
                /\ lret[q] = ErrAlreadyInitialized
                /\ ~wrote[q]

\* the output of each of the first four stages, run on its own
StageOutput(stage) == IF stage.done THEN stage.res ELSE Empty

IsPrefixOf(a, b) == Len(a) <= Len(b) /\ SubSeq(b, 1, Len(a)) = a

\* C10: for a word with no dictionary analysis the result is the output of the
\* first of particle strip, "по-" rule, known-prefix strip, hyphen split that
\* is not empty; when all four are empty it is the unknown-prefix triples
\* followed by the prediction triples
C10_StageOrder ==
    (IsXParse /\ Len(Parse(ToLower(call.arg)).words) = 0) =>
        LET word == ToLower(call.arg)
            a == StageOutput(ParticleStage(word, 0))
            b == StageOutput(PoStage(word, 0))
            c == StageOutput(KnownPrefixStage(word, Empty, 0))
            d == StageOutput(HyphenStage(word, Empty, 0))
            e == UnknownPrefixStage(word, Empty)
            ef == PredictionStage(word, e)
        IN  IF Len(a.words) > 0 THEN call.res = a
            ELSE IF Len(b.words) > 0 THEN call.res = b
            ELSE IF Len(c.words) > 0 THEN call.res = c
            ELSE IF Len(d.words) > 0 THEN call.res = d
            ELSE /\ call.res = ef
                 /\ IsPrefixOf(e.words, call.res.words)
                 /\ IsPrefixOf(e.norms, call.res.norms)
                 /\ IsPrefixOf(e.tags, call.res.tags)

\* the "по-" rule was tried and gave nothing, and the hyphen split gave the result
C10_Witness ==
    /\ IsXParse
    /\ HasPrefix(ToLower(call.arg), "po-")
    /\ Producer(call.arg) = "hyphen"
    /\ Len(call.res.words) > 0

\* the pairs <<i, j>> of a left and a right analysis with equal signatures
MatchingPairs(l, r) ==
    {q \in (1..Len(l.tags)) \X (1..Len(r.tags)) :
        similarityFeatures(l.tags[q[1]]) = similarityFeatures(r.tags[q[2]])}

PairBefore(q, t) == q[1] < t[1] \/ (q[1] = t[1] /\ q[2] < t[2])

\* the pairs of S, left analyses in order and right analyses in order
PairsInOrder(S) ==
    [k \in 1..Cardinality(S) |->
        CHOOSE t \in S : Cardinality({q \in S : PairBefore(q, t)}) = k - 1]

\* the triples of the agreement compounds, then those of the right part
\* behind the literal left part
CompoundTriples(left, l, r) ==
    LET ps == PairsInOrder(MatchingPairs(l, r))
    IN  [k \in 1..Len(ps) |->
            <<l.words[ps[k][1]] \o "-" \o r.words[ps[k][2]],
              l.norms[ps[k][1]] \o "-" \o r.norms[ps[k][2]],
              l.tags[ps[k][1]]>>]
        \o [j \in 1..Len(r.tags) |->
            <<left \o "-" \o r.words[j], left \o "-" \o r.norms[j], r.tags[j]>>]

Triples(res) == [k \in 1..Len(res.tags) |-> <<res.words[k], res.norms[k], res.tags[k]>>]

\* XParse of call.arg has reached the hyphen-compound stage
ReachedHyphenStage ==
    /\ IsXParse
    /\ Producer(call.arg) \in {"hyphen", "guess"}

OneInnerHyphen(word) ==
    /\ CountHyphen(word) = 1
    /\ Char(word, 1) # "-"
    /\ Char(word, Len(word)) # "-"

\* C11: for a word with exactly one hyphen, neither first nor last, the
\* hyphen-compound stage gives the triples of the matching pairs (left
\* analyses in order, right analyses in order, tag of the left one) followed
\* by one triple per right analysis behind the literal left part; it gives
\* nothing exactly when the right part has no analysis, and nothing for any
\* other word
C11_HyphenCompound ==
    ReachedHyphenStage =>
        LET word == ToLower(call.arg)
            h == IndexHyphen(word)
            left == SubSeq(word, 1, h - 1)
            l == XParse(left)
            r == XParse(SubSeq(word, h + 1, Len(word)))
            stage == HyphenStage(word, Empty, 0)
        IN  IF OneInnerHyphen(word)
            THEN /\ Triples(stage.res) = CompoundTriples(left, l, r)
                 /\ Len(stage.res.tags) = Cardinality(MatchingPairs(l, r)) + Len(r.tags)
                 /\ (Len(stage.res.tags) = 0) <=> (Len(r.tags) = 0)
                 /\ Len(r.tags) > 0 => call.res = stage.res
            ELSE /\ stage.res = Empty
                 /\ Producer(call.arg) = "guess"

\* the stage gave agreement compounds and triples of the right part alone
C11_Witness ==
    /\ ReachedHyphenStage
    /\ OneInnerHyphen(ToLower(call.arg))
    /\ LET word == ToLower(call.arg)
           h == IndexHyphen(word)
           l == XParse(SubSeq(word, 1, h - 1))
           r == XParse(SubSeq(word, h + 1, Len(word)))
       IN  /\ MatchingPairs(l, r) # {}
           /\ Cardinality(MatchingPairs(l, r)) < Len(l.tags) * Len(r.tags)
           /\ Len(call.res.tags) = Cardinality(MatchingPairs(l, r)) + Len(r.tags)

\* XParse of call.arg has run the unknown-prefix and the prediction stage
GuessCall == IsXParse /\ Producer(call.arg) = "guess"

\* the prediction stage as XParse(word) runs it, with its lookups
PredictionOf(word) == PredictionRun(word, UnknownPrefixStage(word, Empty))

Occurrences(res, t) == Cardinality({k \in 1..Len(res.tags) : Triples(res)[k] = t})

\* the payloads <<count, paradigm, form>> found for wordEnd in the automaton
\* of a class whose decoded tag is productive, each with the key it is under
ProductiveHits(class, wordEnd) ==
    LET items == similarItems(predictionDAWGs[class + 1], wordEnd)
    IN  {h \in UNION {{<<it.key, v>> : v \in Range(it.values)} : it \in Range(items)} :
            productive(prefixSuffixTag(paradigms[h[2][2] + 1], h[2][3])[3])}

\* the triple that a hit stands for
HitTriple(wordStart, h) ==
    LET para == paradigms[h[2][2] + 1]
        word == wordStart \o h[1]
    IN  <<word, NormalForm(word, para, h[2][3]), prefixSuffixTag(para, h[2][3])[3]>>

\* C12: every productive payload found for a substring that the prediction
\* stage looks up has its triple in the result: once when the prediction stage
\* put it there, and as the unknown-prefix stage left it otherwise; a
\* duplicate makes no other payload be skipped
C12_EveryPayloadOnce ==
    GuessCall =>
        LET word == ToLower(call.arg)
            e == UnknownPrefixStage(word, Empty)
            log == PredictionOf(word).log
        IN  \A n \in 1..Len(log) :
                LET wordStart == SubSeq(word, 1, Len(word) - Len(log[n].wordEnd))
                IN  \A h \in ProductiveHits(log[n].class, log[n].wordEnd) :
                        LET t == HitTriple(wordStart, h)
                        IN  Occurrences(call.res, t) =
                                IF Occurrences(e, t) > 0 THEN Occurrences(e, t) ELSE 1

\* the lookups of one prefix class, in the order they were made
ClassLog(log, id) == SelectSeq(log, LAMBDA en : en.class = id)

RECURSIVE SumCounts(_)
SumCounts(hits) ==
    IF hits = {} THEN 0
    ELSE LET h == CHOOSE x \in hits : TRUE IN h[2][1] + SumCounts(hits \ {h})

\* the match counts of the productive hits for the first k lookups of E
RECURSIVE HitSum(_, _)
HitSum(E, k) ==
    IF k = 0 THEN 0
    ELSE HitSum(E, k - 1) + SumCounts(ProductiveHits(E[k].class, E[k].wordEnd))

\* the last m characters of word
Trailing(word, m) == SubSeq(word, Len(word) - m + 1, Len(word))

\* C13: the prediction stage looks nothing up for a word of fewer than 4
\* characters or in a class whose prefix the word does not start with; in
\* every other class it looks up the trailing substrings from the longest (5
\* characters, or all but the first) down, one character shorter each time;
\* the counter tested after a substring is the sum of the match counts of all
\* hits of this class so far, and the lookups of the class end with the first
\* substring after which the counter exceeds 1
C13_PredictionLookups ==
    GuessCall =>
        LET word == ToLower(call.arg)
            n == RuneCount(word)
            log == PredictionOf(word).log
        IN  /\ \A k \in 1..(Len(log) - 1) : log[k].class <= log[k + 1].class
            /\ \A id \in 0..(Len(prefixes) - 1) :
                  LET E == ClassLog(log, id)
                      longest == Min(5, n - 1)
                  IN  IF n < 4 \/ ~HasPrefix(word, prefixes[id + 1]) THEN E = <<>>
                      ELSE /\ Len(E) >= 1
                           /\ Len(E) <= longest
                           /\ \A k \in 1..Len(E) :
                                 /\ E[k].wordEnd = Trailing(word, longest - k + 1)
                                 /\ E[k].total = HitSum(E, k)
                                 /\ k < Len(E) => E[k].total <= 1
                           /\ E[Len(E)].total > 1 \/ Len(E) = longest

\* the particles that word ends with, in the order of the list
ParticlesOf(word) ==
    SelectSeq(particlesAfterHyphen, LAMBDA suffix : HasSuffix(word, suffix))

\* the arguments of the recursive calls that XParse(word) makes itself, word
\* being in lower case: those of each stage it reaches
Callees(word) ==
    LET ps == ParticlesOf(word)
        particle == IF IndexHyphen(word) = 0 THEN {}
                    ELSE {ParticleArg(word, ps[k]) : k \in
                            {k \in 1..Len(ps) : \A m \in 1..(k - 1) :
                                Len(XParse(ParticleArg(word, ps[m])).words) = 0}}
        po == IF RuneCount(word) >= 5 /\ HasPrefix(word, "po-") THEN {PoArg(word)} ELSE {}
        known == {KnownPrefixArg(word, prefix) : prefix \in Range(MatchingPrefixes(word))}
        hyphen == IF HyphenApplies(word) THEN {HyphenLeft(word), HyphenRightPart(word)}
                  ELSE {}
    IN  IF DictionaryWins(Parse(word)) THEN {}
        ELSE IF ParticleStage(word, 0).done THEN particle
        ELSE IF PoStage(word, 0).done THEN particle \cup po
        ELSE IF KnownPrefixStage(word, Empty, 0).done THEN particle \cup po \cup known
        ELSE particle \cup po \cup known \cup hyphen

\* the words of the invocations below XParse(word), down to fuel levels
RECURSIVE Invoked(_, _)
Invoked(word, fuel) ==
    IF fuel = 0 THEN {}
    ELSE LET cs == {ToLower(c) : c \in Callees(word)}
         IN  cs \cup UNION {Invoked(c, fuel - 1) : c \in cs}

\* the depth of the recursion below XParse(word), followed down to fuel levels
RECURSIVE RecursionDepth(_, _)
RecursionDepth(word, fuel) ==
    LET cs == Callees(word)
    IN  IF fuel = 0 \/ cs = {} THEN 0
        ELSE LET ds == {RecursionDepth(ToLower(c), fuel - 1) : c \in cs}
             IN  1 + CHOOSE d \in ds : \A e \in ds : e <= d

\* C14: XParse returns for every word, never outgrowing the stack: in its
\* own invocation and in every invocation below it, each recursive call is
\* given a word with fewer characters than the word of the invocation making
\* it, and the recursion is no deeper than the input word is long
C14_Terminates ==
    (call.op = "XParse") =>
        /\ \A k \in 1..Len(particlesAfterHyphen) : Len(particlesAfterHyphen[k]) > 0
        /\ \A k \in 1..Len(knownPrefixes) : Len(knownPrefixes[k]) > 0
        /\ call.res.panic # StackOverflow
        /\ call.res.panic = "" =>
              LET word == ToLower(call.arg)
              IN  /\ \A w \in {word} \cup Invoked(word, MaxDepth) :
                        \A c \in Callees(w) : RuneCount(c) < RuneCount(w)
                  /\ RecursionDepth(word, MaxDepth) <= RuneCount(call.arg)

\* a result of XParse that came from an invocation two levels down, with
\* calls made by more than one stage
C14_Witness ==
    /\ IsXParse
    /\ Len(call.res.words) > 0
    /\ RecursionDepth(ToLower(call.arg), MaxDepth) >= 2
    /\ Cardinality(Invoked(ToLower(call.arg), MaxDepth)) >= 2

=============================================================================
